---- MODULE Spec2Model ----
(***************************************************************************)
(* Follow-up scheduling of agentic-rag-drive-monitor: CalendarManager of   *)
(* main.py (due-date extraction, target-date derivation, slot allocation,  *)
(* duration heuristic, calendar write) driven by run_daily_scan.           *)
(*                                                                         *)
(* A datetime is a number of seconds since Monday 2024-12-02 00:00:00      *)
(* (naive local time, as datetime.now() gives it); microseconds are not    *)
(* modelled.  A date phrase as dateutil parses it is a civil record        *)
(* [year, month, day] at midnight.                                         *)
(***************************************************************************)
EXTENDS Integers, Sequences, FiniteSets, TLC

VARIABLES
    now,              \* the clock, datetime.now()
    scheduled_times,  \* CalendarManager.scheduled_times of the run's manager
    calendar,         \* the events the calendar service holds
    calls,            \* the run's action items processed so far, one record each
    ticks,            \* clock advances so far
    pc,               \* "running", or "crashed" once an exception left the loop
    run               \* the number of run_daily_scan calls started

vars == <<now, scheduled_times, calendar, calls, ticks, pc, run>>

-----------------------------------------------------------------------------
(* Bounds of the model *)

\* free choice of action item and sink outcome for the first MaxMixed calls
MaxMixed == 2
\* total calls of create_calendar_event in one run
MaxCalls == 32
\* sink failures in one run
MaxSinkFailures == 1
\* clock advances in one run
MaxTicks == 1
\* calls of create_calendar_event in a short run over all descriptions
MaxExtractCalls == 2
\* runs of run_daily_scan that follow one another, and the items of each
MaxRuns == 2
MaxRunCalls == 2
\* calls of create_calendar_event in a run of two kinds of item
MaxTierCalls == 23

-----------------------------------------------------------------------------
(* Time *)

Hour == 60 * 60
Day == 24 * Hour

Abs(x) == IF x < 0 THEN 0 - x ELSE x

\* datetime.weekday(): Monday = 0 ... Sunday = 6 (the epoch is a Monday)
Weekday(t) == (t \div Day) % 7

\* mutant: only the hour is replaced, minute and second stay
ReplaceHourZero_KeepMinutes(t, h) == (t \div Day) * Day + h * Hour + (t % Hour)

\* t.replace(hour=h, minute=0, second=0, microsecond=0)
ReplaceHourZero(t, h) == (t \div Day) * Day + h * Hour

\* t.replace(hour=h): minute and second are kept
ReplaceHour(t, h) == (t \div Day) * Day + h * Hour + (t % Hour)

HourOf(t) == (t % Day) \div Hour

IsLeap(y) == (y % 4 = 0 /\ y % 100 # 0) \/ y % 400 = 0

DaysInMonth(y, m) ==
    IF m = 2 THEN (IF IsLeap(y) THEN 29 ELSE 28)
    ELSE IF m \in {4, 6, 9, 11} THEN 30 ELSE 31

\* days before January 1st of year y, counted from year 1
DaysBeforeYear(y) ==
    (y - 1) * 365 + (y - 1) \div 4 - (y - 1) \div 100 + (y - 1) \div 400

RECURSIVE DaysBeforeMonth(_, _)
DaysBeforeMonth(y, m) ==
    IF m = 1 THEN 0 ELSE DaysBeforeMonth(y, m - 1) + DaysInMonth(y, m - 1)

\* date(y, m, d).toordinal()
Ordinal(y, m, d) == DaysBeforeYear(y) + DaysBeforeMonth(y, m) + d

\* date(2024, 12, 2).toordinal(), a Monday
EpochOrdinal == Ordinal(2024, 12, 2)

\* midnight of the civil date, in seconds since the epoch
CivilTime(y, m, d) == (Ordinal(y, m, d) - EpochOrdinal) * Day

ValidDate(y, m, d) == m \in 1..12 /\ d >= 1 /\ d <= DaysInMonth(y, m)

\* datetime.year of a time of the modelled range
YearOf(t) ==
    CHOOSE y \in 2024..2027 : CivilTime(y, 1, 1) <= t /\ t < CivilTime(y + 1, 1, 1)

-----------------------------------------------------------------------------
(* Action items *)

Priorities == {"high", "medium", "low"}

\* What one date pattern finds in a description: no match, a matched phrase
\* the parser rejects, or a matched phrase parsed to a date.  year = 0: the
\* phrase names no year and the parser fills in its default.
NoMatch == [kind |-> "nomatch", year |-> 0, month |-> 0, day |-> 0]
ParseError == [kind |-> "error", year |-> 0, month |-> 0, day |-> 0]
Phrase(y, m, d) == [kind |-> "date", year |-> y, month |-> m, day |-> d]

\* The descriptions of the scheduling runs.
Descriptions ==
    { "Buy coffee",
      "Submit final report by December 20th, 2024",
      "Budget review meeting: 12/05/2024" }

\* The descriptions the extractor and the duration heuristic are tried on.
ExtractDescriptions ==
    Descriptions \cup
    { "Review budget",
      "Send meeting notes by December 1st",
      "Finish by February 30, see 2025-03-14",
      "Pay by March 3rd, invoice dated 2025-01-10",
      "Archive the file dated January 5, 1900" }

\* What re.search finds for each of the four date_patterns, in their order,
\* with the matched group as the parser reads it.
Patterns(description) ==
    CASE description = "Submit final report by December 20th, 2024" ->
            <<Phrase(2024, 12, 20), Phrase(2024, 12, 20), NoMatch, NoMatch>>
      [] description = "Budget review meeting: 12/05/2024" ->
            <<NoMatch, NoMatch, Phrase(2024, 12, 5), NoMatch>>
      [] description = "Send meeting notes by December 1st" ->
            <<Phrase(0, 12, 1), Phrase(0, 12, 1), NoMatch, NoMatch>>
      [] description = "Finish by February 30, see 2025-03-14" ->
            <<Phrase(0, 2, 30), Phrase(0, 2, 30), NoMatch, Phrase(2025, 3, 14)>>
      [] description = "Pay by March 3rd, invoice dated 2025-01-10" ->
            <<Phrase(0, 3, 3), Phrase(0, 3, 3), NoMatch, Phrase(2025, 1, 10)>>
      [] description = "Archive the file dated January 5, 1900" ->
            <<NoMatch, Phrase(1900, 1, 5), NoMatch, NoMatch>>
      [] OTHER -> <<NoMatch, NoMatch, NoMatch, NoMatch>>

\* any(keyword in description_lower for keyword in long_meeting_keywords)
HasLongKeyword(description) ==
    description \in { "Budget review meeting: 12/05/2024",
                      "Review budget",
                      "Send meeting notes by December 1st" }

\* any(keyword in description_lower for keyword in short_task_keywords)
HasShortKeyword(description) ==
    description \in { "Submit final report by December 20th, 2024",
                      "Send meeting notes by December 1st" }

\* ActionItem(description, priority) as run_daily_scan builds it
ActionItems == [description : Descriptions, priority : Priorities]

ExtractItems == [description : ExtractDescriptions, priority : Priorities]

-----------------------------------------------------------------------------
(* CalendarManager.parse_due_date_from_description *)

NotFound == [found |-> FALSE, date |-> 0]
Found(t) == [found |-> TRUE, date |-> t]

\* parser.parse(date_str, fuzzy=True): a phrase without a year takes the year
\* of the parser's default date, which is today
ParserYear(p, clock) == IF p.year = 0 THEN YearOf(clock) ELSE p.year

\* One pattern of the loop: [done, result]; done = FALSE is the loop's
\* "continue" (no match, or an exception in the try block).
TryPattern(p, clock) ==
    IF p.kind # "date" THEN [done |-> FALSE, result |-> NotFound]
    ELSE LET y == ParserYear(p, clock) IN
         IF ~ValidDate(y, p.month, p.day)
         THEN [done |-> FALSE, result |-> NotFound]
         ELSE IF y # 1900
         THEN [done |-> TRUE, result |-> Found(CivilTime(y, p.month, p.day))]
         ELSE LET cy == YearOf(clock) IN
              IF ~ValidDate(cy, p.month, p.day)
              THEN [done |-> FALSE, result |-> NotFound]
              ELSE IF CivilTime(cy, p.month, p.day) >= clock
              THEN [done |-> TRUE, result |-> Found(CivilTime(cy, p.month, p.day))]
              ELSE IF ~ValidDate(cy + 1, p.month, p.day)
              THEN [done |-> FALSE, result |-> NotFound]
              ELSE [done |-> TRUE, result |-> Found(CivilTime(cy + 1, p.month, p.day))]

\* mutant: the first pattern that matches ends the loop, parsed or not
RECURSIVE ParseFrom_StopsAtFirstMatch(_, _, _)
ParseFrom_StopsAtFirstMatch(description, clock, i) ==
    IF i > Len(Patterns(description)) THEN NotFound
    ELSE IF Patterns(description)[i].kind = "nomatch"
    THEN ParseFrom_StopsAtFirstMatch(description, clock, i + 1)
    ELSE TryPattern(Patterns(description)[i], clock).result

\* the loop over date_patterns from pattern i on, and the final return None
RECURSIVE ParseFrom(_, _, _)
ParseFrom(description, clock, i) ==
    IF i > Len(Patterns(description)) THEN NotFound
    ELSE LET r == TryPattern(Patterns(description)[i], clock) IN
         IF r.done THEN r.result ELSE ParseFrom(description, clock, i + 1)

\* mutant: without a date phrase the due date is today
parse_due_date_from_description_Today(description, clock) ==
    LET r == ParseFrom(description, clock, 1)
    IN  IF r.found THEN r ELSE Found((clock \div Day) * Day)

parse_due_date_from_description(description, clock) ==
    ParseFrom(description, clock, 1)

-----------------------------------------------------------------------------
(* CalendarManager.get_next_available_slot *)

\* mutant: the bands of high and medium are exchanged
base_hours_Exchanged(priority) ==
    IF priority = "high" THEN <<13, 14, 15>>
    ELSE IF priority = "medium" THEN <<9, 10, 11>>
    ELSE <<16, 17>>

\* mutant: every priority uses the morning band
base_hours_SameBand(priority) == <<9, 10, 11>>

base_hours(priority) ==
    IF priority = "high" THEN <<9, 10, 11>>
    ELSE IF priority = "medium" THEN <<13, 14, 15>>
    ELSE <<16, 17>>

\* mutant: only the slot booked last is compared
is_available_LastOnly(candidate_time, booked) ==
    booked = <<>> \/ Abs(candidate_time - booked[Len(booked)]) >= 1800

\* mutant: the spacing is 90 minutes, a booking takes the hour after it too
is_available_NinetyMinutes(candidate_time, booked) ==
    \A i \in 1..Len(booked) : Abs(candidate_time - booked[i]) >= 5400

\* the inner loop over self.scheduled_times
is_available(candidate_time, booked) ==
    \A i \in 1..Len(booked) : Abs(candidate_time - booked[i]) >= 1800

\* for day_offset in range(14)
SearchDays == 14

NoSlot == [found |-> FALSE, time |-> 0]

\* mutant: the search goes on for three weeks
RECURSIVE SearchFrom_ThreeWeeks(_, _, _, _, _)
SearchFrom_ThreeWeeks(current_date, hours, booked, day_offset, k) ==
    IF day_offset >= 21 THEN NoSlot
    ELSE LET check_date == current_date + day_offset * Day IN
         IF Weekday(check_date) >= 5 \/ k > Len(hours)
         THEN SearchFrom_ThreeWeeks(current_date, hours, booked, day_offset + 1, 1)
         ELSE LET candidate_time == ReplaceHour(check_date, hours[k]) IN
              IF is_available(candidate_time, booked)
              THEN [found |-> TRUE, time |-> candidate_time]
              ELSE SearchFrom_ThreeWeeks(current_date, hours, booked, day_offset, k + 1)

\* The two nested loops from (day_offset, hour index k) on: the first
\* available candidate, or NoSlot when the loops run out.
RECURSIVE SearchFrom(_, _, _, _, _)
SearchFrom(current_date, hours, booked, day_offset, k) ==
    IF day_offset >= SearchDays THEN NoSlot
    ELSE LET check_date == current_date + day_offset * Day IN
         IF Weekday(check_date) >= 5 \/ k > Len(hours)
         THEN SearchFrom(current_date, hours, booked, day_offset + 1, 1)
         ELSE LET candidate_time == ReplaceHour(check_date, hours[k]) IN
              IF is_available(candidate_time, booked)
              THEN [found |-> TRUE, time |-> candidate_time]
              ELSE SearchFrom(current_date, hours, booked, day_offset, k + 1)

\* mutant: the slot is counted after it was appended
fallback_time_CountsItself(current_date, booked) ==
    current_date + ((Len(booked) + 1) \div 3) * Day

\* mutant: the fallback lies behind the searched window
fallback_time_BehindWindow(current_date, booked) ==
    current_date + (14 + Len(booked) \div 3) * Day

\* current_date + timedelta(days=len(self.scheduled_times) // 3)
fallback_time(current_date, booked) == current_date + (Len(booked) \div 3) * Day

\* mutant: the search starts on the day after the target (range(1, 14))
get_next_available_slot_SkipsTargetDay(preferred_date, priority, booked) ==
    LET hours == base_hours(priority)
        current_date == ReplaceHourZero(preferred_date, hours[1])
        s == SearchFrom(current_date, hours, booked, 1, 1)
    IN  IF s.found THEN [time |-> s.time, fallback |-> FALSE]
        ELSE [time |-> current_date + (Len(booked) \div 3) * Day, fallback |-> TRUE]

\* The slot returned for (preferred_date, priority) with history booked, and
\* whether it came from the fallback.
get_next_available_slot(preferred_date, priority, booked) ==
    LET hours == base_hours(priority)
        current_date == ReplaceHourZero(preferred_date, hours[1])
        s == SearchFrom(current_date, hours, booked, 0, 1)
    IN  IF s.found THEN [time |-> s.time, fallback |-> FALSE]
        ELSE [time |-> fallback_time(current_date, booked), fallback |-> TRUE]

-----------------------------------------------------------------------------
(* CalendarManager.determine_event_duration *)

\* mutant: the short-task keywords are looked for first
determine_event_duration_ShortFirst(description, priority) ==
    IF HasShortKeyword(description) THEN 1
    ELSE IF HasLongKeyword(description) THEN (IF priority = "high" THEN 2 ELSE 1)
    ELSE 1

determine_event_duration(description, priority) ==
    IF HasLongKeyword(description) THEN (IF priority = "high" THEN 2 ELSE 1)
    ELSE IF HasShortKeyword(description) THEN 1
    ELSE IF priority = "high" THEN 1
    ELSE 1

-----------------------------------------------------------------------------
(* CalendarManager.create_calendar_event *)

\* mutant: a target in the past is kept
target_date_NoClamp(extracted_due_date, priority, clock) ==
    IF extracted_due_date.found
    THEN IF priority = "high"
         THEN extracted_due_date.date - 1 * Day
         ELSE extracted_due_date.date - 3 * Day
    ELSE IF priority = "high" THEN clock + 1 * Day
    ELSE IF priority = "medium" THEN clock + 2 * Day
    ELSE clock + 3 * Day

\* mutant: medium is treated like low when there is no due date
target_date_MediumAsLow(extracted_due_date, priority, clock) ==
    IF extracted_due_date.found
    THEN LET t == IF priority = "high"
                  THEN extracted_due_date.date - 1 * Day
                  ELSE extracted_due_date.date - 3 * Day
         IN  IF t < clock THEN clock + 1 * Day ELSE t
    ELSE IF priority = "high" THEN clock + 1 * Day
    ELSE clock + 3 * Day

\* mutant: a target in the past is replaced by now
target_date_ClampToNow(extracted_due_date, priority, clock) ==
    IF extracted_due_date.found
    THEN LET t == IF priority = "high"
                  THEN extracted_due_date.date - 1 * Day
                  ELSE extracted_due_date.date - 3 * Day
         IN  IF t < clock THEN clock ELSE t
    ELSE IF priority = "high" THEN clock + 1 * Day
    ELSE IF priority = "medium" THEN clock + 2 * Day
    ELSE clock + 3 * Day

\* the target date of lines 587-604
target_date(extracted_due_date, priority, clock) ==
    IF extracted_due_date.found
    THEN LET t == IF priority = "high"
                  THEN extracted_due_date.date - 1 * Day
                  ELSE extracted_due_date.date - 3 * Day
         IN  IF t < clock THEN clock + 1 * Day ELSE t
    ELSE IF priority = "high" THEN clock + 1 * Day
    ELSE IF priority = "medium" THEN clock + 2 * Day
    ELSE clock + 3 * Day

\* mutant: the duration counts half hours
Event_HalfHours(action_item, scheduled_time, duration_hours) ==
    [summary |-> action_item.description,
     start |-> scheduled_time,
     end |-> scheduled_time + duration_hours * 1800,
     email_minutes |-> IF action_item.priority = "high" THEN 24 * 60 ELSE 60,
     popup_minutes |-> 15,
     colorId |-> IF action_item.priority = "high" THEN "11"
                 ELSE IF action_item.priority = "medium" THEN "5" ELSE "2"]

\* mutant: a long event gets the early email reminder and the red tag
Event_ByDuration(action_item, scheduled_time, duration_hours) ==
    [summary |-> action_item.description,
     start |-> scheduled_time,
     end |-> scheduled_time + duration_hours * Hour,
     email_minutes |-> IF duration_hours = 2 THEN 24 * 60 ELSE 60,
     popup_minutes |-> 15,
     colorId |-> IF duration_hours = 2 THEN "11"
                 ELSE IF action_item.priority = "medium" THEN "5" ELSE "2"]

\* the event dictionary handed to events().insert
Event(action_item, scheduled_time, duration_hours) ==
    [summary |-> action_item.description,
     start |-> scheduled_time,
     end |-> scheduled_time + duration_hours * Hour,
     email_minutes |-> IF action_item.priority = "high" THEN 24 * 60 ELSE 60,
     popup_minutes |-> 15,
     colorId |-> IF action_item.priority = "high" THEN "11"
                 ELSE IF action_item.priority = "medium" THEN "5" ELSE "2"]

\* return value None
None == 0

\* mutant: the history keeps the newest slot only
Book_NewestOnly(booked, slot) == <<slot.time>>

\* mutant: a fallback slot is returned without being recorded
Book_SearchPathOnly(booked, slot) ==
    IF slot.fallback THEN booked ELSE Append(booked, slot.time)

\* mutant: the slot is recorded by the allocator and once more afterwards
Book_Twice(booked, slot) == Append(Append(booked, slot.time), slot.time)

\* the history append of lines 541 and 546
Book(booked, slot) == Append(booked, slot.time)

\* mutant: a successful write is made twice
Insert_Twice(events, event, sink_ok) ==
    IF sink_ok THEN Append(Append(events, event), event) ELSE events

\* the entry the sink holds after events().insert(...).execute(); a raising
\* insert stores nothing
Insert(events, event, sink_ok) == IF sink_ok THEN Append(events, event) ELSE events

\* mutant: the except block gives the slot back
on_exception_RollsBack(booked) == SubSeq(booked, 1, Len(booked) - 1)

\* the except block of lines 660-662: it logs, and leaves the history alone
on_exception(booked) == booked

\* mutant: no try/except around the calendar write
exception_escapes_Uncaught(sink_ok) == ~sink_ok

\* whether an exception of the calendar write leaves create_calendar_event:
\* "except Exception" of line 660 catches it and the call returns None
exception_escapes(sink_ok) == FALSE

\* mutant: the id is returned whether or not the write succeeded
returned_id_Always(events, sink_ok) == Len(events) + 1

\* the value create_calendar_event returns (lines 658 and 662); the id of a
\* created event is its position in the calendar
returned_id(events, sink_ok) == IF sink_ok THEN Len(events) + 1 ELSE None

\* What one call writes to the logger: logger.info of line 657 after a
\* created event, logger.error of line 661 in the except block.  The
\* allocator (lines 503-547) has no logger call, on either path.
log_entries(slot, sink_ok) ==
    IF sink_ok THEN <<[level |-> "info", about |-> "created"]>>
    ELSE <<[level |-> "error", about |-> "error"]>>

\* One call of create_calendar_event for action_item; sink_ok says whether
\* events().insert(...).execute() returns or raises.
create_calendar_event(action_item, sink_ok) ==
    \E extracted_due_date \in
          {parse_due_date_from_description(action_item.description, now)} :
    \E target \in {target_date(extracted_due_date, action_item.priority, now)} :
    \E slot \in
          {get_next_available_slot(target, action_item.priority, scheduled_times)} :
    \E duration_hours \in
          {determine_event_duration(action_item.description, action_item.priority)} :
       /\ scheduled_times' = IF sink_ok THEN Book(scheduled_times, slot)
                             ELSE on_exception(Book(scheduled_times, slot))
       /\ calendar' = Insert(calendar, Event(action_item, slot.time, duration_hours),
                             sink_ok)
       /\ calls' = Append(calls,
             [action_item |-> action_item,
              clock |-> now,
              extracted_due_date |-> extracted_due_date,
              target_date |-> target,
              scheduled_time |-> slot.time,
              fallback |-> slot.fallback,
              duration_hours |-> duration_hours,
              sink_ok |-> sink_ok,
              calendar_event_id |-> returned_id(calendar, sink_ok),
              log |-> log_entries(slot, sink_ok)])
       /\ pc' = IF exception_escapes(sink_ok) THEN "crashed" ELSE pc
       /\ UNCHANGED <<now, ticks, run>>

-----------------------------------------------------------------------------
(* The run: AgenticRAGApplication.run_daily_scan *)

\* datetime.now() when the run starts
NowSet ==
    { CivilTime(2024, 12, 2) + 10 * Hour + 30 * 60 + 15,
      CivilTime(2024, 12, 6) + 23 * Hour + 59 * 60 + 50 }

TickStep == 20

Init ==
    /\ now \in NowSet
    /\ scheduled_times = <<>>
    /\ calendar = <<>>
    /\ calls = <<>>
    /\ ticks = 0
    /\ pc = "running"
    /\ run = 1

SinkFailures == Cardinality({i \in 1..Len(calls) : ~calls[i].sink_ok})

\* The action items the loop of lines 873-876 may meet next.  The first
\* MaxMixed items of a run are arbitrary; a longer run repeats the item
\* before (a document whose analysis lists one action item many times).
NextItems ==
    IF Len(calls) < MaxMixed THEN ActionItems
    ELSE {calls[Len(calls)].action_item}

\* The outcomes of the calendar write; a long run's writes all succeed.
SinkOutcomes ==
    IF Len(calls) < MaxMixed /\ SinkFailures < MaxSinkFailures
    THEN {TRUE, FALSE} ELSE {TRUE}

\* Long runs are explored from short runs without a failed write or a
\* clock advance.
MayContinue ==
    \/ Len(calls) < MaxMixed
    \/ Len(calls) < MaxCalls /\ SinkFailures = 0 /\ ticks = 0

ProcessItem ==
    /\ pc = "running"
    /\ MayContinue
    /\ \E action_item \in NextItems, sink_ok \in SinkOutcomes :
          create_calendar_event(action_item, sink_ok)

\* the clock advances between two items
Tick ==
    /\ ticks < MaxTicks
    /\ Len(calls) < MaxMixed
    /\ now' = now + TickStep
    /\ ticks' = ticks + 1
    /\ UNCHANGED <<scheduled_times, calendar, calls, pc, run>>

Next == ProcessItem \/ Tick

Spec == Init /\ [][Next]_vars

-----------------------------------------------------------------------------
(* Short runs over all descriptions, for the extractor and the heuristics *)

\* datetime.now() when the run starts
ExtractNowSet ==
    NowSet \cup
    { CivilTime(2024, 12, 1),
      CivilTime(2025, 1, 6) + 8 * Hour + 15 * 60 }

InitExtract ==
    /\ now \in ExtractNowSet
    /\ scheduled_times = <<>>
    /\ calendar = <<>>
    /\ calls = <<>>
    /\ ticks = 0
    /\ pc = "running"
    /\ run = 1

ExtractItem ==
    /\ pc = "running"
    /\ Len(calls) < MaxExtractCalls
    /\ \E action_item \in ExtractItems : create_calendar_event(action_item, TRUE)

SpecExtract == InitExtract /\ [][ExtractItem]_vars

-----------------------------------------------------------------------------
(* Several runs: each run_daily_scan builds its own CalendarManager *)

\* the action items of the runs that follow one another
RunItems == { item \in ActionItems : item.description = "Buy coffee" }

\* mutant: the history outlives the manager (a class attribute)
new_manager_history_Shared(booked) == booked

\* CalendarManager.__init__: self.scheduled_times = []
new_manager_history(booked) == <<>>

\* run_daily_scan starts again: a new CalendarManager (line 806) and a new
\* list of action items (line 832); the calendar service keeps its events
StartRun ==
    /\ run < MaxRuns
    /\ scheduled_times' = new_manager_history(scheduled_times)
    /\ calls' = <<>>
    /\ pc' = "running"
    /\ run' = run + 1
    /\ UNCHANGED <<now, calendar, ticks>>

RunItem ==
    /\ pc = "running"
    /\ Len(calls) < MaxRunCalls
    /\ \E action_item \in RunItems : create_calendar_event(action_item, TRUE)

NextRuns == RunItem \/ StartRun

SpecRuns == Init /\ [][NextRuns]_vars

-----------------------------------------------------------------------------
(* Runs of two kinds of item: many items of one priority, then another *)

TierItems == { item \in ActionItems : item.description = "Buy coffee" }

\* the run so far repeats one action item
OneKind == \A i \in 1..Len(calls) : calls[i].action_item = calls[1].action_item

\* the loop of lines 873-876 over a list that repeats one action item and
\* then another
TierItem ==
    /\ pc = "running"
    /\ Len(calls) < MaxTierCalls
    /\ \E action_item \in (IF OneKind THEN TierItems
                            ELSE {calls[Len(calls)].action_item}) :
          create_calendar_event(action_item, TRUE)

SpecTiers == Init /\ [][TierItem]_vars

-----------------------------------------------------------------------------
(* Properties of the slot allocator *)

\* the normalized target of call i: the target day at the first band hour
NormalizedTarget(i) ==
    ReplaceHourZero(calls[i].target_date,
                    base_hours(calls[i].action_item.priority)[1])

\* the weekday candidates of call i's search: day offsets 0..13 from the
\* normalized target, at the band hours
WeekdayCandidates(i) ==
    { c \in { NormalizedTarget(i) + d * Day + (h - HourOf(NormalizedTarget(i))) * Hour :
                d \in 0..13,
                h \in { base_hours(calls[i].action_item.priority)[k] :
                          k \in 1..Len(base_hours(calls[i].action_item.priority)) } } :
        Weekday(c) \in 0..4 }

\* candidate c is less than 1800 s from a slot booked before call i
Blocked(c, i) ==
    \E j \in 1..(i - 1) :
        c - scheduled_times[j] < 1800 /\ scheduled_times[j] - c < 1800

\* the call that returned last, if any: each call of a run is the last one
\* in the state it returns to, with the history it found as
\* scheduled_times[1..i-1]
LastCall == IF calls = <<>> THEN {} ELSE {Len(calls)}

SearchCalls == { i \in 1..Len(calls) : ~calls[i].fallback }
FallbackCalls == { i \in 1..Len(calls) : calls[i].fallback }

\* C1: any two start times returned in one run are at least 1800 s apart,
\* unless one of them came from the fallback path.
C1_MinimumSpacing ==
    \A i \in SearchCalls : \A j \in SearchCalls :
        i # j =>
          \/ calls[i].scheduled_time - calls[j].scheduled_time >= 1800
          \/ calls[j].scheduled_time - calls[i].scheduled_time >= 1800

\* two search-path allocations of one priority and one target day, the second
\* pushed to the next hour by the first, in a run that also holds a fallback
C1_Witness ==
    /\ \E i \in SearchCalls : \E j \in SearchCalls :
          /\ i < j
          /\ calls[i].action_item.priority = calls[j].action_item.priority
          /\ NormalizedTarget(i) = NormalizedTarget(j)
          /\ calls[j].scheduled_time = calls[i].scheduled_time + Hour
    /\ FallbackCalls # {}

\* C2: a search-path slot is on Monday-Friday, on the full hour, at an hour
\* of its priority's band.
C2_WeekdayAndBand ==
    \A i \in SearchCalls :
        LET t == calls[i].scheduled_time
            p == calls[i].action_item.priority
        IN  /\ Weekday(t) \in 0..4
            /\ t % Hour = 0
            /\ p = "high" => HourOf(t) \in {9, 10, 11}
            /\ p = "medium" => HourOf(t) \in {13, 14, 15}
            /\ p = "low" => HourOf(t) \in {16, 17}

\* a search-path slot whose target fell on a weekend with a time of day that
\* is not a full hour
C2_Witness ==
    \E i \in SearchCalls :
        /\ Weekday(calls[i].target_date) \in {5, 6}
        /\ calls[i].target_date % Hour # 0

\* C3: the search path returns the first free candidate: when a call returns
\* from the search path, the returned slot is a weekday candidate of the
\* window, and every weekday candidate before it is less than 1800 s from a
\* slot booked earlier.
C3_FirstFreeCandidate ==
    \A i \in LastCall \cap SearchCalls :
        /\ calls[i].scheduled_time \in WeekdayCandidates(i)
        /\ ~Blocked(calls[i].scheduled_time, i)
        /\ \A c \in WeekdayCandidates(i) :
              c < calls[i].scheduled_time => Blocked(c, i)

\* a search-path slot on a later day than its target, all earlier weekday
\* candidates (there are some) being taken
C3_Witness ==
    \E i \in LastCall \cap SearchCalls :
        /\ calls[i].scheduled_time >= NormalizedTarget(i) + Day
        /\ \E c \in WeekdayCandidates(i) : c < calls[i].scheduled_time

\* C4: of two search-path allocations with the same target day and the same
\* priority, the later one gets the strictly later slot.
C4_EarlierItemsFirst ==
    \A i \in SearchCalls : \A j \in SearchCalls :
        ( /\ i < j
          /\ calls[i].action_item.priority = calls[j].action_item.priority
          /\ NormalizedTarget(i) = NormalizedTarget(j) )
        => calls[i].scheduled_time < calls[j].scheduled_time

\* three successive allocations of one priority and one target day
C4_Witness ==
    \E i \in SearchCalls :
        /\ i + 2 \in SearchCalls
        /\ i + 1 \in SearchCalls
        /\ \A j \in {i + 1, i + 2} :
              /\ calls[i].action_item.priority = calls[j].action_item.priority
              /\ NormalizedTarget(i) = NormalizedTarget(j)

\* C5: with a due date extracted, the target is the due date minus 1 day
\* (high) or minus 3 days (other priorities), replaced by now + 1 day when
\* that is earlier than now.
C5_TargetFromDueDate ==
    \A i \in 1..Len(calls) :
        calls[i].extracted_due_date.found =>
          LET before == IF calls[i].action_item.priority = "high" THEN 1 ELSE 3
              t == calls[i].extracted_due_date.date - before * Day
          IN  \/ t >= calls[i].clock /\ calls[i].target_date = t
              \/ t < calls[i].clock /\ calls[i].target_date = calls[i].clock + Day

\* a run with a high item whose due date minus 1 day is kept and another
\* item whose due date minus 3 days is in the past
C5_Witness ==
    /\ \E i \in 1..Len(calls) :
          /\ calls[i].extracted_due_date.found
          /\ calls[i].action_item.priority = "high"
          /\ calls[i].target_date = calls[i].extracted_due_date.date - Day
    /\ \E i \in 1..Len(calls) :
          /\ calls[i].extracted_due_date.found
          /\ calls[i].action_item.priority # "high"
          /\ calls[i].extracted_due_date.date - 3 * Day < calls[i].clock
          /\ calls[i].target_date = calls[i].clock + Day

\* C6: with no due date extracted, the target is now + 1 day (high),
\* now + 2 days (medium) or now + 3 days (low).
C6_TargetFromPriority ==
    \A i \in 1..Len(calls) :
        ~calls[i].extracted_due_date.found =>
          /\ calls[i].action_item.priority = "high" =>
                calls[i].target_date = calls[i].clock + Day
          /\ calls[i].action_item.priority = "medium" =>
                calls[i].target_date = calls[i].clock + 2 * Day
          /\ calls[i].action_item.priority = "low" =>
                calls[i].target_date = calls[i].clock + 3 * Day

\* a run with a medium and a low item without due date
C6_Witness ==
    /\ \E i \in 1..Len(calls) :
          ~calls[i].extracted_due_date.found /\ calls[i].action_item.priority = "medium"
    /\ \E i \in 1..Len(calls) :
          ~calls[i].extracted_due_date.found /\ calls[i].action_item.priority = "low"

\* C7: a call that finds every weekday candidate of the window taken returns
\* the normalized target plus floor(n / 3) days, n the number of slots booked
\* before the call, whatever the weekday, and records it.
C7_FallbackSlot ==
    \A i \in LastCall :
        (\A c \in WeekdayCandidates(i) : Blocked(c, i)) =>
          /\ calls[i].scheduled_time = NormalizedTarget(i) + ((i - 1) \div 3) * Day
          /\ Len(scheduled_times) >= i
          /\ scheduled_times[i] = calls[i].scheduled_time

\* an exhausted search whose fallback slot is on a weekend
C7_Witness ==
    \E i \in LastCall :
        /\ \A c \in WeekdayCandidates(i) : Blocked(c, i)
        /\ Weekday(calls[i].scheduled_time) \in {5, 6}

\* C8: the fallback breaks the spacing: whenever the normalized target plus
\* floor(n / 3) days is a weekday of the searched window, the fallback slot
\* is less than 1800 s from a slot booked before; it is then equal to it.
C8_FallbackCollides ==
    \A i \in LastCall \cap FallbackCalls :
        (NormalizedTarget(i) + ((i - 1) \div 3) * Day) \in WeekdayCandidates(i)
        => /\ Blocked(calls[i].scheduled_time, i)
           /\ \E j \in 1..(i - 1) : scheduled_times[j] = calls[i].scheduled_time

\* a fallback slot equal to a start time already in the history
C8_Witness ==
    \E i \in LastCall \cap FallbackCalls :
        \E j \in 1..(i - 1) : scheduled_times[j] = calls[i].scheduled_time

\* C9: after n calls the history holds exactly the n returned start times,
\* in the order returned.
C9_HistoryGrows ==
    /\ Len(scheduled_times) = Len(calls)
    /\ \A i \in 1..Len(calls) : scheduled_times[i] = calls[i].scheduled_time

\* a history of more than 20 entries, from the search path and the fallback
C9_Witness ==
    /\ FallbackCalls # {}
    /\ SearchCalls # {}
    /\ Len(scheduled_times) > 20

\* C10: the slot of an item whose calendar write failed stays in the history
\* and no later search-path allocation returns it.
C10_FailedWriteKeepsSlot ==
    \A i \in 1..Len(calls) :
        ~calls[i].sink_ok =>
          /\ Len(scheduled_times) >= i
          /\ scheduled_times[i] = calls[i].scheduled_time
          /\ \A j \in SearchCalls :
                j > i => calls[j].scheduled_time # calls[i].scheduled_time

\* a failed write followed by an item of the same priority and target day
C10_Witness ==
    \E i \in 1..Len(calls) :
        /\ ~calls[i].sink_ok
        /\ \E j \in SearchCalls :
              /\ j > i
              /\ calls[i].action_item.priority = calls[j].action_item.priority
              /\ NormalizedTarget(i) = NormalizedTarget(j)

-----------------------------------------------------------------------------
(* Properties of the calendar write *)

FailedCalls == { i \in 1..Len(calls) : ~calls[i].sink_ok }

\* C11: a rejected calendar write marks its item with calendar_event_id = None
\* and leaves the loop of run_daily_scan running for the later items.
C11_IsolatedFailure ==
    \A i \in FailedCalls :
        /\ calls[i].calendar_event_id = None
        /\ pc = "running"
        /\ \A j \in (i + 1)..Len(calls) :
              calls[j].sink_ok => calls[j].calendar_event_id # None

\* a rejected write followed by an item whose event was created
C11_Witness ==
    \E i \in FailedCalls :
        \E j \in (i + 1)..Len(calls) :
            calls[j].sink_ok /\ calls[j].calendar_event_id = Len(calendar)

\* C12: no exception leaves create_calendar_event: whatever the item and the
\* outcome of the write, the call returns None or the id of the event it
\* created.
C12_NoExceptionEscapes ==
    /\ pc # "crashed"
    /\ \A i \in 1..Len(calls) :
          \/ calls[i].calendar_event_id = None
          \/ /\ calls[i].calendar_event_id \in 1..Len(calendar)
             /\ calendar[calls[i].calendar_event_id].start = calls[i].scheduled_time
             /\ calendar[calls[i].calendar_event_id].summary =
                   calls[i].action_item.description

\* a run with a call that returned an id and a call that returned None
C12_Witness ==
    /\ \E i \in 1..Len(calls) : calls[i].sink_ok /\ calls[i].calendar_event_id # None
    /\ \E i \in FailedCalls : calls[i].calendar_event_id = None

-----------------------------------------------------------------------------
(* Properties of the due-date extractor and the duration heuristic *)

\* the patterns that match in call i's description
Matching(i) ==
    { k \in 1..4 : Patterns(calls[i].action_item.description)[k].kind # "nomatch" }

\* the patterns that match in call i's description with a phrase that parses
Parsing(i) ==
    { k \in 1..4 :
        TryPattern(Patterns(calls[i].action_item.description)[k], calls[i].clock).done }

First(S) == CHOOSE k \in S : \A l \in S : k <= l

\* C13: a description in which none of the four patterns matches yields
\* "not found", and the call does not raise.
C13_NoPatternNotFound ==
    /\ pc # "crashed"
    /\ \A i \in 1..Len(calls) :
          Matching(i) = {} => ~calls[i].extracted_due_date.found

\* a description without any date pattern went through the extractor
C13_Witness ==
    \E i \in 1..Len(calls) :
        /\ Matching(i) = {}
        /\ calls[i].action_item.description = "Review budget"
        /\ calls[i].extracted_due_date = NotFound

\* C14 as claimed: the first pattern that matches decides the result; when its
\* phrase does not parse the result is "not found".
C14_FirstMatchDecides ==
    \A i \in 1..Len(calls) :
        Matching(i) # {} =>
          LET r == TryPattern(
                     Patterns(calls[i].action_item.description)[First(Matching(i))],
                     calls[i].clock)
          IN  calls[i].extracted_due_date = IF r.done THEN r.result ELSE NotFound

\* C14 (amended): the patterns are tried in order and the first one that
\* matches with a phrase that parses decides the result; after a matched
\* phrase that does not parse the later patterns are still tried, and the
\* result is "not found" only when no pattern yields a date.
C14_FirstParsedPatternDecides ==
    \A i \in 1..Len(calls) :
        IF Parsing(i) = {}
        THEN calls[i].extracted_due_date = NotFound
        ELSE calls[i].extracted_due_date =
               TryPattern(
                 Patterns(calls[i].action_item.description)[First(Parsing(i))],
                 calls[i].clock).result

\* a description whose first matching phrase does not parse and whose due
\* date comes from a later pattern
C14_Witness ==
    \E i \in 1..Len(calls) :
        /\ Matching(i) # {}
        /\ First(Matching(i)) \notin Parsing(i)
        /\ calls[i].extracted_due_date.found

\* C15 as claimed: a phrase without a year yields its month and day in the
\* current year, or in the next year when that date is before now, so the
\* due date is never earlier than now.
C15_YearlessNeverPast ==
    \A i \in 1..Len(calls) :
        Parsing(i) # {} =>
          LET p == Patterns(calls[i].action_item.description)[First(Parsing(i))]
              cy == YearOf(calls[i].clock)
          IN  p.year = 0 =>
                /\ calls[i].extracted_due_date.found
                /\ calls[i].extracted_due_date.date >= calls[i].clock
                /\ calls[i].extracted_due_date.date =
                      IF CivilTime(cy, p.month, p.day) >= calls[i].clock
                      THEN CivilTime(cy, p.month, p.day)
                      ELSE CivilTime(cy + 1, p.month, p.day)

C19_EmptyHistoryFirstHour ==
    calls # <<>> =>
      LET d == calls[1].target_date \div Day
          p == calls[1].action_item.priority
          day == IF d % 7 = 5 THEN d + 2 ELSE IF d % 7 = 6 THEN d + 1 ELSE d
          hour == IF p = "high" THEN 9 ELSE IF p = "medium" THEN 13 ELSE 16
      IN  /\ ~calls[1].fallback
          /\ calls[1].scheduled_time = day * Day + hour * Hour
          /\ (d * Day = CivilTime(2024, 12, 19) /\ p = "high")
                => calls[1].scheduled_time = CivilTime(2024, 12, 19) + 9 * Hour
          /\ (d * Day = CivilTime(2025, 1, 8) /\ p = "medium")
                => calls[1].scheduled_time = CivilTime(2025, 1, 8) + 13 * Hour

\* "Review budget", medium, on 2025-01-06: the first call of the run gets
\* 2025-01-08 13:00
C19_Witness ==
    /\ calls # <<>>
    /\ calls[1].action_item = [description |-> "Review budget", priority |-> "medium"]
    /\ calls[1].clock \div Day = CivilTime(2025, 1, 6) \div Day
    /\ calls[1].scheduled_time = CivilTime(2025, 1, 8) + 13 * Hour

-----------------------------------------------------------------------------
(* Properties of the run *)

C20_HistoryPerRun ==
    /\ Len(scheduled_times) = Len(calls)
    /\ \A i \in LastCall \cap SearchCalls :
          /\ scheduled_times[i] = calls[i].scheduled_time
          /\ \A c \in WeekdayCandidates(i) :
                c < calls[i].scheduled_time => Blocked(c, i)

\* the first item of a later run gets the start time of an event that an
\* earlier run wrote
C20_Witness ==
    /\ run > 1
    /\ calls # <<>>
    /\ \E e \in 1..(Len(calendar) - Len(calls)) :
          calendar[e].start = calls[1].scheduled_time

-----------------------------------------------------------------------------
(* Properties of the event *)

\* the calls whose event the calendar holds
CreatedCalls == { i \in 1..Len(calls) : calls[i].sink_ok }

\* the event call i created
EventOf(i) == calendar[calls[i].calendar_event_id]

\* C21: the end of an event is its allocated start plus the duration of
\* determine_event_duration in whole hours, so it lasts 1 or 2 hours.
C21_EndIsStartPlusDuration ==
    \A i \in CreatedCalls :
        /\ EventOf(i).start = calls[i].scheduled_time
        /\ EventOf(i).end =
              calls[i].scheduled_time
                + determine_event_duration(calls[i].action_item.description,
                                           calls[i].action_item.priority) * Hour
        /\ EventOf(i).end - EventOf(i).start \in {1 * Hour, 2 * Hour}

\* a run that created an event of 1 hour and an event of 2 hours
C21_Witness ==
    /\ \E i \in CreatedCalls : EventOf(i).end - EventOf(i).start = 1 * Hour
    /\ \E i \in CreatedCalls : EventOf(i).end - EventOf(i).start = 2 * Hour

\* C22: reminders and colour follow the priority alone: high has the email
\* 1440 minutes before and colour "11" (red), medium 60 minutes and "5"
\* (yellow), low 60 minutes and "2" (green); the popup is always 15 minutes
\* before.
C22_RemindersAndColour ==
    \A i \in CreatedCalls :
        LET p == calls[i].action_item.priority
            e == EventOf(i)
        IN  /\ e.popup_minutes = 15
            /\ p = "high" => e.email_minutes = 1440 /\ e.colorId = "11"
            /\ p = "medium" => e.email_minutes = 60 /\ e.colorId = "5"
            /\ p = "low" => e.email_minutes = 60 /\ e.colorId = "2"

\* a high and a low event of one description, with their reminders and
\* colours
C22_Witness ==
    \E i \in CreatedCalls : \E j \in CreatedCalls :
        /\ calls[i].action_item.description = calls[j].action_item.description
        /\ calls[i].action_item.priority = "high"
        /\ calls[j].action_item.priority = "low"
        /\ EventOf(i).email_minutes = 1440 /\ EventOf(i).colorId = "11"
        /\ EventOf(j).email_minutes = 60 /\ EventOf(j).colorId = "2"

\* C23: one call of create_calendar_event changes the history by exactly the
\* one entry of its get_next_available_slot call; the extractor and the
\* duration heuristic add or remove nothing.
C23_OneEntryPerItem ==
    [][ \/ scheduled_times' = scheduled_times /\ calls' = calls
        \/ /\ Len(calls') = Len(calls) + 1
           /\ scheduled_times' =
                 Append(scheduled_times, calls'[Len(calls')].scheduled_time) ]_vars

\* two items went through the extractor (a due date found) and the duration
\* heuristic (a long-meeting keyword): two entries
C23_Witness ==
    /\ Len(calls) = 2
    /\ Len(scheduled_times) = 2
    /\ \A i \in 1..2 :
          /\ calls[i].extracted_due_date.found
          /\ calls[i].duration_hours = 2

\* C24 as claimed: a call whose search ran out has a log entry about it that
\* is not an error.
C24_FallbackLogged ==
    \A i \in FallbackCalls :
        \E k \in 1..Len(calls[i].log) :
            /\ calls[i].log[k].about = "exhausted"
            /\ calls[i].log[k].level # "error"

\* C25 as claimed: the events of two search-path slots of one run do not
\* overlap as intervals [start, start + duration).
C25_NoOverlap ==
    \A i \in SearchCalls \cap CreatedCalls : \A j \in SearchCalls \cap CreatedCalls :
        i # j =>
          \/ calls[i].scheduled_time + calls[i].duration_hours * Hour
                <= calls[j].scheduled_time
          \/ calls[j].scheduled_time + calls[j].duration_hours * Hour
                <= calls[i].scheduled_time

-----------------------------------------------------------------------------
(* Properties of the window and of the priorities *)

\* the slots booked before call i for items of call i's priority
OwnHistory(i) ==
    LET Own(j) == calls[j].action_item.priority = calls[i].action_item.priority
        F[j \in 0..(i - 1)] ==
            IF j = 0 THEN <<>>
            ELSE IF Own(j) THEN Append(F[j - 1], scheduled_times[j]) ELSE F[j - 1]
    IN  F[i - 1]

\* C26: whether a call stays on the search path, and the slot it gets there,
\* are those of the same call with a history that holds the bookings of its
\* own priority only.
C26_TiersDoNotInterfere ==
    \A i \in LastCall :
        LET r == get_next_available_slot(calls[i].target_date,
                                         calls[i].action_item.priority,
                                         OwnHistory(i))
        IN  /\ r.fallback = calls[i].fallback
            /\ ~calls[i].fallback => r.time = calls[i].scheduled_time

\* a search-path call that follows bookings of its own priority and more
\* than 20 bookings of another priority, a fallback among them
C26_Witness ==
    \E i \in LastCall \cap SearchCalls :
        /\ Len(OwnHistory(i)) = 1
        /\ i > 22
        /\ \E j \in FallbackCalls : j < i

\* the weekdays among the 14 days of call i's window
WindowWeekdays(i) ==
    { d \in 0..13 : Weekday(NormalizedTarget(i) + d * Day) \in 0..4 }

\* the bookings a fallback needs: 10 weekdays times the hours of the band
Needed(priority) == 10 * Len(base_hours(priority))

\* C27: a window holds 10 weekdays; a call takes the fallback only when every
\* weekday candidate is booked, which takes 30 earlier bookings (high,
\* medium) or 20 (low); with fewer than 20 there is no fallback.
C27_FallbackNeedsFullWindow ==
    \A i \in LastCall :
        /\ Cardinality(WindowWeekdays(i)) = 10
        /\ calls[i].fallback =>
              /\ \A c \in WeekdayCandidates(i) : Blocked(c, i)
              /\ i - 1 >= Needed(calls[i].action_item.priority)
              /\ Needed(calls[i].action_item.priority) =
                    (IF calls[i].action_item.priority = "low" THEN 20 ELSE 30)
        /\ i - 1 < 20 => ~calls[i].fallback

\* a high or medium item takes the fallback after exactly 30 bookings
C27_Witness ==
    \E i \in LastCall \cap FallbackCalls :
        /\ calls[i].action_item.priority # "low"
        /\ i - 1 = 30

\* C28: a search-path slot is not before the normalized target and its day
\* is the target's day plus 0 to 13 days.
C28_InsideWindow ==
    \A i \in SearchCalls :
        /\ calls[i].scheduled_time >= NormalizedTarget(i)
        /\ (calls[i].scheduled_time \div Day) - (calls[i].target_date \div Day)
              \in 0..13

\* a search-path slot on the last day of its window
C28_Witness ==
    \E i \in SearchCalls :
        (calls[i].scheduled_time \div Day) - (calls[i].target_date \div Day) = 13

\* C29: the start handed to the calendar is later than the clock of the
\* call, on the search path and on the fallback path.
C29_NeverInThePast ==
    \A i \in 1..Len(calls) :
        /\ calls[i].scheduled_time > calls[i].clock
        /\ calls[i].sink_ok => EventOf(i).start > calls[i].clock

\* a run with a fallback slot and a target that was moved to now + 1 day
\* because the due date lay behind
C29_Witness ==
    /\ FallbackCalls \cap CreatedCalls # {}
    /\ \E i \in CreatedCalls :
          /\ calls[i].extracted_due_date.found
          /\ calls[i].extracted_due_date.date < calls[i].clock
          /\ calls[i].target_date = calls[i].clock + Day

\* C30 as claimed: with a due date later than now, the scheduled start is
\* earlier than the due date.
C30_StartBeforeDueDate ==
    \A i \in 1..Len(calls) :
        ( /\ calls[i].extracted_due_date.found
          /\ calls[i].extracted_due_date.date > calls[i].clock )
        => calls[i].scheduled_time < calls[i].extracted_due_date.date

====
